---- MODULE Spec2Model ----
(***************************************************************************)
(* A model of the two stateful engines of the repository:                  *)
(*                                                                         *)
(*   - the combine/trim engine, which exists twice: CombineModal.tsx       *)
(*     (scenes of one segmentation run) and GifCombiner.tsx (decoded GIF   *)
(*     files).  Both are React components: a handler sets state, the       *)
(*     render that follows runs the effects whose dependencies changed.    *)
(*     An action below is one handler together with the effects of the     *)
(*     renders it causes.  Specification: Spec.                            *)
(*                                                                         *)
(*   - the scene segmenter, the processVideo loop of useVideoProcessor.ts. *)
(*     Specifications: SegSpec, SoloSpec for a single run, SoloFairSpec    *)
(*     for a single run whose events arrive, and AppSpec for a single run  *)
(*     with the user selecting and renaming the scenes App shows.          *)
(*                                                                         *)
(* Two pure functions have a specification of their own: the derived       *)
(* metrics (MetricsSpec) and calculateFrameDifference (DiffSpec).          *)
(*                                                                         *)
(* JavaScript arrays are 0-based and sequences here are 1-based: the frame *)
(* at index i of an array is element i + 1 of the sequence.                *)
(***************************************************************************)
EXTENDS Integers, Sequences, FiniteSets, Bags, TLC

(***************************************************************************)
(* Bounds of the model.                                                    *)
(***************************************************************************)
\* Encodes that may be in flight at once before the model stops starting more.
MaxInFlight == 2
\* Timers the browser's timer table may hold before the model stops adding more.
MaxTimers == 2
\* Milliseconds by which one Tick advances the clock.
TickMs == 100
\* Longest frame list the derived metrics are computed for.
MaxFrames == 3

(***************************************************************************)
(* Program constants.                                                      *)
(***************************************************************************)
\* CombineModal.tsx: window.setTimeout(..., 300)
DebounceCombineModal == 300
\* GifCombiner.tsx: window.setTimeout(..., 500)
DebounceGifCombiner == 500

Min(a, b) == IF a <= b THEN a ELSE b
Max(a, b) == IF a >= b THEN a ELSE b

(***************************************************************************)
(* Frames and sources.                                                     *)
(*                                                                         *)
(* A frame is {data: ImageData, delay} (GifScene.frames) or                *)
(* {imageData: ImageData, delay} (ParsedGifFrame); the model calls the     *)
(* image `data` in both.  An ImageData is its identity (source, position)  *)
(* with its width and height.                                              *)
(***************************************************************************)
Image(src, k, w, h) == [src |-> src, k |-> k, width |-> w, height |-> h]
Frame(img, d) == [data |-> img, delay |-> d]

\* The scenes CombineModal is opened with: scenes of ONE segmentation run, so
\* every frame has the run's canvas size and the run's delay 1000 / frameRate
\* (frameRate 8, the App's default).
SceneSources ==
    [ s1 |-> [width |-> 4, height |-> 3,
              frames |-> << Frame(Image("s1", 0, 4, 3), 125) >>],
      s2 |-> [width |-> 4, height |-> 3,
              frames |-> << Frame(Image("s2", 0, 4, 3), 125) >>] ]

\* The decoded GIF files GifCombiner is opened with: each has its own logical
\* screen size and per-frame delays (parseGifFile).
GifSources ==
    [ s1 |-> [width |-> 4, height |-> 3,
              frames |-> << Frame(Image("s1", 0, 4, 3), 100) >>],
      s2 |-> [width |-> 2, height |-> 2,
              frames |-> << Frame(Image("s2", 0, 2, 2), 40) >>] ]

Components == {"CombineModal", "GifCombiner"}
Sources(c) == IF c = "CombineModal" THEN SceneSources ELSE GifSources
\* The list the component is constructed with (props.scenes / props.gifs).
InitialOrder == << "s1", "s2" >>

Debounce(c) == IF c = "CombineModal" THEN DebounceCombineModal ELSE DebounceGifCombiner

(***************************************************************************)
(* Array helpers, as JavaScript computes them.                             *)
(***************************************************************************)
\* Array.prototype.slice(from, to) for 0 <= from: indices from .. to - 1,
\* both clamped to the length; empty when to <= from.
Slice(s, from, to) ==
    LET f == Min(Max(from, 0), Len(s))
        t == Min(Max(to, 0), Len(s))
    IN  IF t <= f THEN << >> ELSE SubSeq(s, f + 1, t)

\* frames.reduce((acc, f) => acc + f.delay, 0)
RECURSIVE SumDelays(_)
SumDelays(s) == IF s = << >> THEN 0 ELSE s[1].delay + SumDelays(Tail(s))

\* ordered.flatMap(x => x.frames)
RECURSIVE FlatMap(_, _)
FlatMap(c, order) ==
    IF order = << >> THEN << >>
    ELSE Sources(c)[order[1]].frames \o FlatMap(c, Tail(order))

\* handleDragSort: splice(dragItem, 1) then splice(dragOverItem, 0, item).
DragSort(order, dragItem, dragOverItem) ==
    LET item == order[dragItem + 1]
        rest == SubSeq(order, 1, dragItem) \o SubSeq(order, dragItem + 2, Len(order))
        at   == Min(dragOverItem, Len(rest))
    IN  SubSeq(rest, 1, at) \o << item >> \o SubSeq(rest, at + 1, Len(rest))


(***************************************************************************)
(* State of one mounted combine/trim component.                            *)
(***************************************************************************)
VARIABLES
    comp,                  \* which of the two components this is
    phase,                 \* "constructed": rendered once, effects not yet run; "mounted"
    orderedSources,        \* orderedScenes / orderedGifs: the source ids in order
    flatFrames,            \* allFrames / flatFrames: the flattened index
    trimStart, trimEnd,    \* the trim range, 0-based inclusive
    workerUrl,             \* workerScriptUrl / workerUrl is non-null
    timers,                \* the browser's pending timeouts of this component
    generationTimeoutRef,  \* generationTimeoutRef.current: a timer id, 0 for null
    encodes,               \* bag of GIF encodes that were rendered and have not finished
    combinedGif,           \* the blob of the combinedGif state, NoGif for {url: null, blob: null}
    isGenerating,
    quietMs,               \* history: ms since the debounce effect last ran (saturating)
    lastOp                 \* history: the case of the last user operation, see ReorderCase, StartCase, EndCase

combineVars == << comp, phase, orderedSources, flatFrames, trimStart, trimEnd, workerUrl,
                  timers, generationTimeoutRef, encodes, combinedGif, isGenerating,
                  quietMs, lastOp >>

\* {url: null, blob: null}
NoGif == [frames |-> << >>, width |-> 0, height |-> 0]

\* CombineModal is rendered by the App only while isCombineModalOpen, with
\* isOpen={isCombineModalOpen}: a mounted modal has isOpen = true.
isOpen == TRUE

(***************************************************************************)
(* The encoder boundary: new GIF({width, height}), addFrame(image, {delay}) *)
(* per frame, render().  The blob that 'finished' delivers is determined   *)
(* by what was handed over, and is modelled as exactly that.               *)
(***************************************************************************)
AddFrame(frame) == [image |-> frame.data, delay |-> frame.delay]
AddFrames(frames) == [k \in 1..Len(frames) |-> AddFrame(frames[k])]
NewGIF(frames, w, h) == [frames |-> AddFrames(frames), width |-> w, height |-> h]

\* The values of the render whose closure a timer callback holds.
Closure(worker, order, frames, s, e) ==
    [workerUrl |-> worker, order |-> order, frames |-> frames, start |-> s, end |-> e]

(***************************************************************************)
(* generateCombinedGif.  The result names the encodes it starts (jobs, at  *)
(* most one) and the combinedGif and isGenerating it leaves.               *)
(***************************************************************************)
\* Mutant of TrimmedFrames: slice(startFrame, endFrame), the end index excluded.
TrimmedFramesExclusive(frames, startFrame, endFrame) == Slice(frames, startFrame, endFrame)

\* The frames handed to the encoder: framesToCombine.slice(startFrame, endFrame + 1)
TrimmedFrames(frames, startFrame, endFrame) == Slice(frames, startFrame, endFrame + 1)

\* CombineModal: width and height of the first trimmed frame's ImageData.
CombineModalDimensions(trimmed) ==
    [width |-> trimmed[1].data.width, height |-> trimmed[1].data.height]

\* Mutant of GifCombinerDimensions: the size of the last source.
GifCombinerDimensionsOfLast(c, order) ==
    [width |-> Sources(c)[order[Len(order)]].width,
     height |-> Sources(c)[order[Len(order)]].height]

\* GifCombiner: width and height of orderedGifs[0].
GifCombinerDimensions(c, order) ==
    [width |-> Sources(c)[order[1]].width, height |-> Sources(c)[order[1]].height]

CombineModalGenerate(cl, gif, gen) ==
    IF ~cl.workerUrl \/ Len(cl.frames) = 0
    THEN [jobs |-> << >>, gif |-> gif, gen |-> gen]
    ELSE LET trimmed == TrimmedFrames(cl.frames, cl.start, cl.end)
         IN  IF Len(trimmed) = 0 \/ cl.start > cl.end
             THEN [jobs |-> << >>, gif |-> NoGif, gen |-> FALSE]
             ELSE LET d == CombineModalDimensions(trimmed)
                  IN  [jobs |-> << NewGIF(trimmed, d.width, d.height) >>,
                       gif |-> gif, gen |-> TRUE]

GifCombinerGenerate(c, cl, gif, gen) ==
    IF ~cl.workerUrl \/ Len(cl.frames) = 0 \/ Len(cl.order) = 0
    THEN [jobs |-> << >>, gif |-> gif, gen |-> gen]
    ELSE IF cl.start > cl.end
    THEN [jobs |-> << >>, gif |-> NoGif, gen |-> gen]
    ELSE LET trimmed == TrimmedFrames(cl.frames, cl.start, cl.end)
         IN  IF Len(trimmed) = 0
             THEN [jobs |-> << >>, gif |-> gif, gen |-> FALSE]
             ELSE LET d == GifCombinerDimensions(c, cl.order)
                  IN  [jobs |-> << NewGIF(trimmed, d.width, d.height) >>,
                       gif |-> gif, gen |-> TRUE]

Generate(c, cl, gif, gen) ==
    IF c = "CombineModal" THEN CombineModalGenerate(cl, gif, gen)
    ELSE GifCombinerGenerate(c, cl, gif, gen)

(***************************************************************************)
(* Timers: window.setTimeout and clearTimeout on the browser's table.      *)
(***************************************************************************)
\* Mutant of ClearTimeout: the pending timer is left in the table.
ClearTimeoutSkipped(ts, ref) == ts

\* clearTimeout(ref) guarded by `if (ref)`.
ClearTimeout(ts, ref) == IF ref = 0 THEN ts ELSE {t \in ts : t.id # ref}

\* The id window.setTimeout returns: one no pending timer has.
NewTimerId(ts) == CHOOSE n \in 1..(Cardinality(ts) + 1) : \A t \in ts : t.id # n

SetTimeout(ts, id, cl, ms) == ts \cup {[id |-> id, left |-> ms, cl |-> cl]}

(***************************************************************************)
(* The debounce effect: the cleanup of its previous run, then its body,    *)
(* for a render with the values of cl.  The result is the timer table, the *)
(* ref, combinedGif and isGenerating it leaves.                            *)
(***************************************************************************)
CombineModalDebounceEffect(ts, ref, cl, gif, gen) ==
    LET cleaned == ClearTimeout(ts, ref)
    IN  IF isOpen /\ Len(cl.frames) > 0
        THEN LET cleared == ClearTimeout(cleaned, ref)
                 id == NewTimerId(cleared)
             IN  [timers |-> SetTimeout(cleared, id, cl, DebounceCombineModal),
                  ref |-> id, gif |-> gif, gen |-> gen]
        ELSE [timers |-> cleaned, ref |-> ref, gif |-> gif, gen |-> gen]

GifCombinerDebounceEffect(ts, ref, cl, gif, gen) ==
    LET cleaned == ClearTimeout(ts, ref)
    IN  IF ~cl.workerUrl \/ Len(cl.frames) = 0
        THEN [timers |-> cleaned, ref |-> ref, gif |-> NoGif, gen |-> gen]
        ELSE LET cleared == ClearTimeout(cleaned, ref)
                 id == NewTimerId(cleared)
             IN  [timers |-> SetTimeout(cleared, id, cl, DebounceGifCombiner),
                  ref |-> id, gif |-> gif, gen |-> TRUE]

DebounceEffect(c, ts, ref, cl, gif, gen) ==
    IF c = "CombineModal" THEN CombineModalDebounceEffect(ts, ref, cl, gif, gen)
    ELSE GifCombinerDebounceEffect(ts, ref, cl, gif, gen)

(***************************************************************************)
(* The reorder effect: allFrames / flatFrames, trimStart and trimEnd for   *)
(* the source order of the render.                                         *)
(***************************************************************************)
\* Mutant of ReorderEffect: trimEnd set to the length, one past the last index.
ReorderEffectOnePastEnd(c, order) ==
    LET all == FlatMap(c, order)
    IN  [frames |-> all, start |-> 0, end |-> Len(all)]

ReorderEffect(c, order) ==
    LET all == FlatMap(c, order)
    IN  [frames |-> all, start |-> 0,
         end |-> IF Len(all) > 0 THEN Len(all) - 1 ELSE 0]

(***************************************************************************)
(* The trim handlers: the value each hands to its state setter.            *)
(***************************************************************************)
\* Mutants of the trim handlers: the slider value is stored as it comes.
HandleStartTrimChangeUnclamped(newStart, tEnd) == newStart
HandleEndTrimChangeUnclamped(newEnd, tStart) == newEnd

\* handleStartTrimChange: setTrimStart(Math.min(newStart, trimEnd))
HandleStartTrimChange(newStart, tEnd) == Min(newStart, tEnd)
\* handleEndTrimChange: setTrimEnd(Math.max(newEnd, trimStart))
HandleEndTrimChange(newEnd, tStart) == Max(newEnd, tStart)

\* The values a range input can report: min={0} max={length > 0 ? length - 1 : 0}
SliderValues(frames) == 0..(IF Len(frames) > 0 THEN Len(frames) - 1 ELSE 0)

(***************************************************************************)
(* The derived metrics (useMemo), in milliseconds: totalDurationMs,        *)
(* startTimeMs, selectedDurationMs and endTimeMs of the code.  What is     *)
(* displayed is each of them divided by 1000.                              *)
(***************************************************************************)
\* Mutant of Metrics: durations guessed from frame counts at 100 ms per frame.
MetricsByFrameCount(frames, tStart, tEnd) ==
    [totalDurationMs |-> 100 * Len(frames),
     startTimeMs |-> 100 * tStart,
     endTimeMs |-> 100 * (tEnd + 1),
     selectedDurationMs |-> 100 * (tEnd - tStart + 1)]

Metrics(frames, tStart, tEnd) ==
    IF Len(frames) = 0
    THEN [totalDurationMs |-> 0, startTimeMs |-> 0, endTimeMs |-> 0, selectedDurationMs |-> 0]
    ELSE LET total    == SumDelays(frames)
             start    == SumDelays(Slice(frames, 0, tStart))
             selected == SumDelays(Slice(frames, tStart, tEnd + 1))
         IN  [totalDurationMs |-> total, startTimeMs |-> start,
              endTimeMs |-> start + selected, selectedDurationMs |-> selected]


(***************************************************************************)
(* The renders a handler causes, as the debounce effect sees them.         *)
(***************************************************************************)
\* A change of the source order (and the mount, where the order is new).
\* Render 1 has the new order and still the old frames and trim: the reorder
\* effect sets the new ones, and in GifCombiner the debounce effect runs too,
\* generateCombinedGif depending on orderedGifs.  Render 2 has the new frames
\* and the full trim range, and the debounce effect runs in both components.
\* `first` says that render 1 is the component's first, where every effect runs.
OrderRenders(c, first, worker, order, oldFrames, oldStart, oldEnd, ts, ref, gif, gen) ==
    LET re == ReorderEffect(c, order)
        r1 == IF first \/ c = "GifCombiner"
              THEN DebounceEffect(c, ts, ref,
                                  Closure(worker, order, oldFrames, oldStart, oldEnd), gif, gen)
              ELSE [timers |-> ts, ref |-> ref, gif |-> gif, gen |-> gen]
    IN  DebounceEffect(c, r1.timers, r1.ref,
                       Closure(worker, order, re.frames, re.start, re.end), r1.gif, r1.gen)

\* The cases of a user operation that the history variable lastOp tells apart:
\* a reorder of a trimmed timeline, a start handle dragged beyond the end handle,
\* an end handle dragged below the start handle; "other" for the rest.
ReorderCase(frames, tStart, tEnd) ==
    IF tStart # 0 \/ tEnd # Len(frames) - 1 THEN "reorderTrimmed" ELSE "other"
StartCase(v, tEnd) == IF v > tEnd THEN "startBeyondEnd" ELSE "other"
EndCase(v, tStart) == IF v < tStart THEN "endBelowStart" ELSE "other"

CombineInit ==
    /\ comp \in Components
    /\ phase = "constructed"
    /\ orderedSources \in {InitialOrder, DragSort(InitialOrder, 0, 1)}
    /\ flatFrames = << >>
    /\ trimStart = 0
    /\ trimEnd = 0
    \* CombineModal's scenes exist only once the App's worker script is loaded;
    \* GifCombiner fetches its own after mounting.
    /\ workerUrl = (comp = "CombineModal")
    /\ timers = {}
    /\ generationTimeoutRef = 0
    /\ encodes = EmptyBag
    /\ combinedGif = NoGif
    /\ isGenerating = FALSE
    /\ quietMs = 0
    /\ lastOp = "other"

\* The effects of the first render, and the render they cause.
Mount ==
    /\ phase = "constructed"
    /\ LET re == ReorderEffect(comp, orderedSources)
           r  == OrderRenders(comp, TRUE, workerUrl, orderedSources, flatFrames,
                              trimStart, trimEnd, timers, generationTimeoutRef,
                              combinedGif, isGenerating)
       IN  /\ Cardinality(r.timers) <= MaxTimers
           /\ flatFrames' = re.frames
           /\ trimStart' = re.start
           /\ trimEnd' = re.end
           /\ timers' = r.timers
           /\ generationTimeoutRef' = r.ref
           /\ combinedGif' = r.gif
           /\ isGenerating' = r.gen
    /\ phase' = "mounted"
    /\ quietMs' = 0
    /\ UNCHANGED << comp, orderedSources, workerUrl, encodes, lastOp >>

\* GifCombiner: the fetch of the worker script resolves, setWorkerUrl(objectUrl).
WorkerLoaded ==
    /\ comp = "GifCombiner"
    /\ phase = "mounted"
    /\ ~workerUrl
    /\ LET r == DebounceEffect(comp, timers, generationTimeoutRef,
                               Closure(TRUE, orderedSources, flatFrames, trimStart, trimEnd),
                               combinedGif, isGenerating)
       IN  /\ Cardinality(r.timers) <= MaxTimers
           /\ timers' = r.timers
           /\ generationTimeoutRef' = r.ref
           /\ combinedGif' = r.gif
           /\ isGenerating' = r.gen
    /\ workerUrl' = TRUE
    /\ quietMs' = 0
    /\ UNCHANGED << comp, phase, orderedSources, flatFrames, trimStart, trimEnd, encodes,
                    lastOp >>

\* handleDragSort with dragItem.current = i and dragOverItem.current = j.
Reorder(i, j) ==
    /\ phase = "mounted"
    /\ LET order == DragSort(orderedSources, i, j)
           re == ReorderEffect(comp, order)
           r  == OrderRenders(comp, FALSE, workerUrl, order, flatFrames, trimStart, trimEnd,
                              timers, generationTimeoutRef, combinedGif, isGenerating)
       IN  /\ Cardinality(r.timers) <= MaxTimers
           /\ orderedSources' = order
           /\ flatFrames' = re.frames
           /\ trimStart' = re.start
           /\ trimEnd' = re.end
           /\ timers' = r.timers
           /\ generationTimeoutRef' = r.ref
           /\ combinedGif' = r.gif
           /\ isGenerating' = r.gen
    /\ quietMs' = 0
    /\ lastOp' = ReorderCase(flatFrames, trimStart, trimEnd)
    /\ UNCHANGED << comp, phase, workerUrl, encodes >>

\* A trim setter was called with `s` and `e` as the new range.  React renders
\* again only when a state changed; the debounce effect then runs.
TrimRender(s, e) ==
    IF s = trimStart /\ e = trimEnd
    THEN UNCHANGED << trimStart, trimEnd, timers, generationTimeoutRef, combinedGif,
                      isGenerating, quietMs >>
    ELSE LET r == DebounceEffect(comp, timers, generationTimeoutRef,
                                 Closure(workerUrl, orderedSources, flatFrames, s, e),
                                 combinedGif, isGenerating)
         IN  /\ Cardinality(r.timers) <= MaxTimers
             /\ trimStart' = s
             /\ trimEnd' = e
             /\ timers' = r.timers
             /\ generationTimeoutRef' = r.ref
             /\ combinedGif' = r.gif
             /\ isGenerating' = r.gen
             /\ quietMs' = 0

\* handleStartTrimChange with e.target.value = v.
SetTrimStart(v) ==
    /\ phase = "mounted"
    /\ TrimRender(HandleStartTrimChange(v, trimEnd), trimEnd)
    /\ lastOp' = StartCase(v, trimEnd)
    /\ UNCHANGED << comp, phase, orderedSources, flatFrames, workerUrl, encodes >>

\* handleEndTrimChange with e.target.value = v.
SetTrimEnd(v) ==
    /\ phase = "mounted"
    /\ TrimRender(trimStart, HandleEndTrimChange(v, trimStart))
    /\ lastOp' = EndCase(v, trimStart)
    /\ UNCHANGED << comp, phase, orderedSources, flatFrames, workerUrl, encodes >>

\* A timeout whose delay has elapsed runs its callback, generateCombinedGif
\* with the values of the render that set it; gif.render() starts the encode.
TimerFire ==
    \E t \in timers :
        /\ t.left = 0
        /\ LET g == Generate(comp, t.cl, combinedGif, isGenerating)
           IN  /\ BagCardinality(encodes) + Len(g.jobs) <= MaxInFlight
               /\ encodes' = IF g.jobs = << >> THEN encodes
                             ELSE encodes (+) SetToBag({g.jobs[1]})
               /\ combinedGif' = g.gif
               /\ isGenerating' = g.gen
        /\ timers' = timers \ {t}
        /\ UNCHANGED << comp, phase, orderedSources, flatFrames, trimStart, trimEnd,
                        workerUrl, generationTimeoutRef, quietMs, lastOp >>

\* gif.on('finished', blob): any encode in flight may be the next to finish.
EncodeFinished ==
    \E job \in BagToSet(encodes) :
        /\ encodes' = encodes (-) SetToBag({job})
        /\ combinedGif' = job
        /\ isGenerating' = FALSE
        /\ UNCHANGED << comp, phase, orderedSources, flatFrames, trimStart, trimEnd,
                        workerUrl, timers, generationTimeoutRef, quietMs, lastOp >>

\* TickMs milliseconds pass.
Tick ==
    /\ phase = "mounted"
    /\ quietMs < Debounce(comp) \/ \E t \in timers : t.left > 0
    /\ timers' = {[t EXCEPT !.left = Max(0, @ - TickMs)] : t \in timers}
    /\ quietMs' = Min(Debounce(comp), quietMs + TickMs)
    /\ UNCHANGED << comp, phase, orderedSources, flatFrames, trimStart, trimEnd, workerUrl,
                    generationTimeoutRef, encodes, combinedGif, isGenerating, lastOp >>

CombineNext ==
    \/ Mount
    \/ WorkerLoaded
    \/ \E i, j \in 0..(Len(orderedSources) - 1) : Reorder(i, j)
    \/ \E v \in SliderValues(flatFrames) : SetTrimStart(v)
    \/ \E v \in SliderValues(flatFrames) : SetTrimEnd(v)
    \/ TimerFire
    \/ EncodeFinished
    \/ Tick

(***************************************************************************)
(* The derived metrics as a pure function of a timeline: the inputs are    *)
(* drawn from every frame list of up to MaxFrames frames with delays of    *)
(* FrameDelays, and every trim range valid for it.                         *)
(***************************************************************************)
VARIABLES
    mFrames,            \* the flattened frames handed to useMemo
    mTrimStart, mTrimEnd,
    mComputed,          \* the memo has been computed
    mMetrics            \* its result

metricsVars == << mFrames, mTrimStart, mTrimEnd, mComputed, mMetrics >>

\* Delays, in ms, a decoded frame may carry.
FrameDelays == {40, 70, 100}

FrameLists ==
    UNION {[1..n -> {Frame(Image("s1", 0, 4, 3), d) : d \in FrameDelays}] : n \in 0..MaxFrames}

MetricsInit ==
    /\ mFrames \in FrameLists
    /\ mTrimStart \in SliderValues(mFrames)
    /\ mTrimEnd \in SliderValues(mFrames)
    /\ mTrimStart <= mTrimEnd
    /\ mComputed = FALSE
    /\ mMetrics = Metrics(<< >>, 0, 0)

\* The render evaluates the memo for its frames and trim range.
ComputeMetrics ==
    /\ ~mComputed
    /\ mMetrics' = Metrics(mFrames, mTrimStart, mTrimEnd)
    /\ mComputed' = TRUE
    /\ UNCHANGED << mFrames, mTrimStart, mTrimEnd >>

MetricsNext == ComputeMetrics

(***************************************************************************)
(* The scene segmenter: the effect of useVideoProcessor.ts.  A run is one  *)
(* execution of processVideo; it advances from one await to the next, and  *)
(* an action below is the code between two awaits.                         *)
(***************************************************************************)
COMPARISON_CANVAS_WIDTH == 48
DIFFERENCE_THRESHOLD == 15
MIN_SCENE_FRAMES == 10

\* The 'original' choice of settings.resolution.
Original == 0

\* The optimization settings of the run: the default of the application.
settings == [resolution |-> 640, frameRate |-> 8]

\* What a video shows at an instant.  Every picture is made of pixel
\* columns of one colour, so scaling it to a canvas keeps the colours.
\* "tie" differs from "black" by exactly DIFFERENCE_THRESHOLD percent (its
\* luminance is 0.299 * 24 + 0.587 * 24 + 0.114 * 149 = 38.25 = 0.15 * 255, in
\* double arithmetic as well), "over" by a little more.
Pictures == {"black", "dim", "white", "split", "tie", "over"}

\* The RGBA value of the pixel in column x of a picture drawn w pixels wide.
Pixel(picture, x, w) ==
    CASE picture = "black" -> << 0, 0, 0, 255 >>
      [] picture = "dim"   -> << 30, 30, 30, 255 >>
      [] picture = "white" -> << 255, 255, 255, 255 >>
      [] picture = "tie"   -> << 24, 24, 149, 255 >>
      [] picture = "over"  -> << 24, 24, 150, 255 >>
      [] picture = "split" -> IF 2 * x < w THEN << 255, 255, 255, 255 >>
                                           ELSE << 0, 0, 0, 255 >>

\* comparisonCtx.drawImage followed by getImageData(...).data: the flat RGBA
\* bytes of the picture drawn on a canvas of w by h pixels, row by row.
ComparisonData(picture, w, h) ==
    [k \in 1..(4 * w * h) |-> Pixel(picture, ((k - 1) \div 4) % w, w)[((k - 1) % 4) + 1]]

\* Mutant of Abs: the sign is kept.
AbsSigned(n) == n

Abs(n) == IF n < 0 THEN -n ELSE n

\* The luminance of the pixel at byte offset i (0-based), in thousandths:
\* 0.299 R + 0.587 G + 0.114 B.
Gray(data, i) == 299 * data[i + 1] + 587 * data[i + 2] + 114 * data[i + 3]

\* Mutant of SumAbsDiff: the luminances are added instead of subtracted.
RECURSIVE SumAbsSum(_, _, _)
SumAbsSum(data1, data2, i) ==
    IF i >= Len(data1) THEN 0
    ELSE Abs(Gray(data1, i) + Gray(data2, i)) + SumAbsSum(data1, data2, i + 4)

\* The loop of calculateFrameDifference from offset i on, in thousandths.
RECURSIVE SumAbsDiff(_, _, _)
SumAbsDiff(data1, data2, i) ==
    IF i >= Len(data1) THEN 0
    ELSE Abs(Gray(data1, i) - Gray(data2, i)) + SumAbsDiff(data1, data2, i + 4)

\* calculateFrameDifference, kept as the exact fraction num / den (a
\* percentage).  The loop runs over data1; a read past the end of data2 is
\* undefined and makes the sum NaN, and an empty data1 gives 0 / 0 = NaN.
calculateFrameDifference(data1, data2) ==
    IF Len(data1) = 0 \/ Len(data2) < Len(data1)
    THEN [nan |-> TRUE, num |-> 0, den |-> 1]
    ELSE [nan |-> FALSE,
          num |-> 100 * SumAbsDiff(data1, data2, 0),
          den |-> 1000 * 255 * (Len(data1) \div 4)]

\* Mutant of ExceedsThreshold: a difference equal to the threshold counts.
ReachesThreshold(difference) ==
    /\ ~difference.nan
    /\ difference.num >= DIFFERENCE_THRESHOLD * difference.den

\* difference > DIFFERENCE_THRESHOLD (false for NaN).
ExceedsThreshold(difference) ==
    /\ ~difference.nan
    /\ difference.num > DIFFERENCE_THRESHOLD * difference.den

\* Double arithmetic, for scale = resolution / largerDim and
\* Math.floor(side * scale) with 0 < resolution < largerDim and side <=
\* largerDim, all below 2^13.  A double has a mantissa of 53 bits.
RECURSIVE Pow2(_)
Pow2(n) == IF n = 0 THEN 1 ELSE 2 * Pow2(n - 1)

\* floor(log2(k)) for k >= 1.
RECURSIVE Log2Floor(_)
Log2Floor(k) == IF k < 2 THEN 0 ELSE 1 + Log2Floor(k \div 2)

\* The binary exponent of resolution / largerDim: the j >= 1 with
\* 2^-j <= resolution / largerDim < 2^-(j-1).
RECURSIVE ScaleExponent(_, _, _)
ScaleExponent(resolution, largerDim, j) ==
    IF resolution * Pow2(j) >= largerDim THEN j
    ELSE ScaleExponent(resolution, largerDim, j + 1)

\* Long division: after t further binary digits of rem / largerDim, the
\* last digit produced and the remainder left.
RECURSIVE LongDivision(_, _, _, _)
LongDivision(rem, bit, largerDim, t) ==
    IF t = 0 THEN [rem |-> rem, bit |-> bit]
    ELSE LongDivision((2 * rem) % largerDim, (2 * rem) \div largerDim, largerDim, t - 1)

\* scale = resolution / largerDim rounded to the nearest double, ties to
\* even: its exponent j, and how it lies to the exact quotient.  Below the
\* quotient, it is short of it by rem / (largerDim * 2^(52 + j)).
Scale(resolution, largerDim) ==
    LET j == ScaleExponent(resolution, largerDim, 1)
        q == LongDivision(resolution, 0, largerDim, 52 + j)
    IN  [j |-> j,
         rem |-> q.rem,
         below |-> /\ q.rem # 0
                   /\ ~(2 * q.rem > largerDim \/ (2 * q.rem = largerDim /\ q.bit = 1))]

\* Math.floor(side * scale).  Where side * resolution / largerDim is not a
\* whole number the rounding is far too small to cross one.  Where it is a
\* whole number k and scale lies below the quotient, the product lies below
\* k by side * rem / (largerDim * 2^(52 + j)) and is rounded to the nearest
\* double: to k if that is at most half the distance from k to the double
\* before it (2^(e - 52), or 2^(e - 53) for k = 2^e), and below k otherwise.
FloorScaled(side, resolution, largerDim) ==
    LET k == (side * resolution) \div largerDim
        s == Scale(resolution, largerDim)
        e == Log2Floor(k)
    IN  IF (side * resolution) % largerDim # 0 \/ k = 0 \/ ~s.below THEN k
        ELSE IF (IF k = Pow2(e) THEN 4 ELSE 2) * side * s.rem <= largerDim * Pow2(e + s.j)
        THEN k
        ELSE k - 1

\* The size of the high resolution canvas: the video's size, scaled down
\* when its larger side exceeds settings.resolution.
ScaledDimensions(videoWidth, videoHeight, resolution) ==
    LET largerDim == Max(videoWidth, videoHeight) IN
    IF resolution # Original /\ largerDim > resolution
    THEN [width |-> FloorScaled(videoWidth, resolution, largerDim),
          height |-> FloorScaled(videoHeight, resolution, largerDim)]
    ELSE [width |-> videoWidth, height |-> videoHeight]

\* !videoWidth || !videoHeight || !isFinite(...) is false.
ValidDimensions(d) == d.width # 0 /\ d.height # 0

\* Math.round(COMPARISON_CANVAS_WIDTH * (videoHeight / videoWidth)).
ComparisonHeight(d) ==
    (2 * COMPARISON_CANVAS_WIDTH * d.height + d.width) \div (2 * d.width)

\* The video files a user may hand over: size, duration in ms and what they
\* show, as shots << picture, end of the shot in ms >>.
Shot(picture, untilMs) == [picture |-> picture, untilMs |-> untilMs]

Videos ==
    { [name |-> "three", videoWidth |-> 96, videoHeight |-> 2, durationMs |-> 3750,
       shots |-> << Shot("black", 1250), Shot("white", 2500), Shot("split", 3750) >>],
      [name |-> "blip", videoWidth |-> 1280, videoHeight |-> 26, durationMs |-> 3250,
       shots |-> << Shot("black", 1250), Shot("white", 2000), Shot("black", 3250) >>],
      [name |-> "short", videoWidth |-> 96, videoHeight |-> 2, durationMs |-> 500,
       shots |-> << Shot("white", 500) >>],
      [name |-> "empty", videoWidth |-> 96, videoHeight |-> 2, durationMs |-> 0,
       shots |-> << >>],
      [name |-> "audio", videoWidth |-> 0, videoHeight |-> 0, durationMs |-> 1000,
       shots |-> << Shot("black", 1000) >>] }

\* Videos of two halves for the study of single runs: the first half shows
\* black then dim (similar pictures), the second half white, and the change
\* is at half the duration.  The durations go up from 2.5 s in steps of 50 ms.
MaxHalvesSteps == 10

HalvesVideo(d) ==
    [name |-> "halves" \o ToString(d), videoWidth |-> 96, videoHeight |-> 2, durationMs |-> d,
     shots |-> << Shot("black", d \div 4), Shot("dim", d \div 2), Shot("white", d) >>]

HalvesVideos == {HalvesVideo(2500 + 50 * k) : k \in 0..MaxHalvesSteps}

\* Videos whose second shot differs from the first by exactly the threshold
\* ("tie") and by just more than it ("over").
ThresholdVideos ==
    { [name |-> "tie", videoWidth |-> 96, videoHeight |-> 2, durationMs |-> 2500,
       shots |-> << Shot("black", 1250), Shot("tie", 2500) >>],
      [name |-> "over", videoWidth |-> 96, videoHeight |-> 2, durationMs |-> 2500,
       shots |-> << Shot("black", 1250), Shot("over", 2500) >>] }

\* Videos for the study of the canvas size: a wide strip of 1600 by 40, and
\* a file of 854 by 480 without a single sample.
ScalingVideos ==
    { [name |-> "wide", videoWidth |-> 1600, videoHeight |-> 40, durationMs |-> 1250,
       shots |-> << Shot("white", 1250) >>],
      [name |-> "sd", videoWidth |-> 854, videoHeight |-> 480, durationMs |-> 0,
       shots |-> << >>] }

Video(name) ==
    CHOOSE v \in Videos \cup HalvesVideos \cup ThresholdVideos \cup ScalingVideos : v.name = name

\* The inputs of the hook: a file picked by the user has no base name, a
\* file fetched from a link may carry one.  "" stands for null.  The
\* resolution is settings.resolution of the render that starts the run.
Inputs ==
    {[file |-> v.name, baseName |-> IF v.name = "three" THEN "clip" ELSE "",
      resolution |-> settings.resolution] : v \in Videos}

\* Math.floor(video.duration * frameRate).
TotalFramesToProcess(video, frameRate) == (video.durationMs * frameRate) \div 1000

\* The picture the video shows after the seek to time i / frameRate.
PictureAt(video, i, frameRate) ==
    LET k == CHOOSE k \in 1..Len(video.shots) :
                 /\ i * 1000 < video.shots[k].untilMs * frameRate
                 /\ \A j \in 1..(k - 1) : i * 1000 >= video.shots[j].untilMs * frameRate
    IN  video.shots[k].picture

\* The delay of a captured frame, 1000 / frameRate (exact for the frame
\* rate of settings).
FrameDelay(frameRate) == 1000 \div frameRate

TwoDigits(n) == IF n < 10 THEN "0" \o ToString(n) ELSE ToString(n)

\* (i / frameRate).toFixed(2): hundredths, a tie rounded up.
TimeToFixed2(i, frameRate) ==
    LET c == (200 * i + frameRate) \div (2 * frameRate)
    IN  ToString(c \div 100) \o "." \o TwoDigits(c % 100)

\* The effect runs of one behaviour.
RunIds == {1, 2}

\* lastFrameData = null.
Null == << -1 >>

NoError == ""

VARIABLES
    videoFile,          \* the file handed to the hook, "" for null
    baseName,           \* the base name handed to the hook, "" for null
    runs,               \* the local state of each run of processVideo
    processedScenes,    \* useState: the published scenes
    isProcessing,       \* useState
    progress,           \* useState, in whole percent
    error,              \* useState, NoError for null
    revokedUrls,        \* the object URLs of scenes revoked so far
    appScenes           \* useState of App: the scenes list it displays (`scenes`)

segVars == << videoFile, baseName, runs, processedScenes, isProcessing, progress, error,
              revokedUrls, appScenes >>

\* A run that has not been started.
IdleRun(r) ==
    [id |-> r, pc |-> "idle", file |-> "", baseName |-> "",
     resolution |-> settings.resolution, aborted |-> FALSE,
     srcRevoked |-> FALSE, width |-> 0, height |-> 0, comparisonHeight |-> 0,
     totalFramesToProcess |-> 0, i |-> 0, lastFrameData |-> Null,
     currentSceneFrames |-> << >>, scenes |-> << >>, sceneCount |-> 0,
     resume |-> "loop"]

\* The hook's state as one value, for the operators below.
Hook == [processedScenes |-> processedScenes, isProcessing |-> isProcessing,
         progress |-> progress, error |-> error]

\* URL.createObjectURL(finishedBlob): a fresh URL for the encoded blob.
CreateObjectURL(r, sceneId, blob) == [run |-> r, scene |-> sceneId, blob |-> blob]

\* The scene createGifFromFrames resolves with when the encoder finishes.
createGifFromFrames(run, frames, sceneId) ==
    [id |-> ToString(sceneId),
     dataUrl |-> CreateObjectURL(run.id, sceneId, NewGIF(frames, run.width, run.height)),
     frames |-> frames,
     isSelected |-> FALSE,
     name |-> IF run.baseName # "" THEN run.baseName \o " " \o ToString(sceneId)
              ELSE "Scene " \o ToString(sceneId)]

\* Mutant of PushScene: scenes.unshift(newScene), the new scene put first.
PushSceneFront(scenes, newScene) == << newScene >> \o scenes

\* scenes.push(newScene).
PushScene(scenes, newScene) == Append(scenes, newScene)

\* The operators below take and return st = [run |-> the local state of a
\* run, hook |-> the hook's state].

\* Mutant of Finally: the handler ends without setIsProcessing(false).
FinallyKeepsProcessing(st) == [st EXCEPT !.run.pc = "done"]

\* finally { setIsProcessing(false) }: the handler is over.
Finally(st) == [st EXCEPT !.run.pc = "done", !.hook.isProcessing = FALSE]

\* Mutant of Catch: the error is recorded and the handler waits on.
CatchAndWait(st, message) == [st EXCEPT !.hook.error = message]

\* catch (e) { setError(e.message || ...) } finally ...
Catch(st, message) == Finally([st EXCEPT !.hook.error = message])

\* Mutant of NoScenesCheck: a run without scenes ends without an error.
NoScenesCheckSilent(st) == Finally(st)

\* The end of the handler: the error of a run without scenes.
NoScenesCheck(st) ==
    IF Len(st.run.scenes) = 0 /\ st.run.totalFramesToProcess > 0
    THEN Finally([st EXCEPT !.hook.error =
             "No scenes could be detected. The video might be too short or a single continuous scene. Try adjusting Optimization Settings."])
    ELSE Finally(st)

\* Mutant of AfterLoop: the last accumulation is encoded whatever its length.
AfterLoopAnyLength(st) ==
    IF Len(st.run.currentSceneFrames) > 0
    THEN [st EXCEPT !.run.sceneCount = @ + 1, !.run.pc = "encoding", !.run.resume = "end"]
    ELSE NoScenesCheck(st)

\* After the loop: the last remaining scene is handed to the encoder.
AfterLoop(st) ==
    IF Len(st.run.currentSceneFrames) >= MIN_SCENE_FRAMES
    THEN [st EXCEPT !.run.sceneCount = @ + 1, !.run.pc = "encoding", !.run.resume = "end"]
    ELSE NoScenesCheck(st)

\* Mutant of LoopHead: the seek is made without looking at the abort signal.
LoopHeadNoAbortCheck(st) ==
    IF st.run.i < st.run.totalFramesToProcess
    THEN [st EXCEPT !.run.pc = "seeking"]
    ELSE AfterLoop(st)

\* The head of the loop: the abort check, then the seek to sample i.
LoopHead(st) ==
    IF st.run.i < st.run.totalFramesToProcess
    THEN IF st.run.aborted THEN Finally(st) ELSE [st EXCEPT !.run.pc = "seeking"]
    ELSE AfterLoop(st)

\* The two captures of sample i: the high resolution frame and the low
\* resolution bytes.  They are functions of the video and of i.
HighResFrameData(run) == Image(run.file, run.i, run.width, run.height)

CurrentFrameData(run) ==
    ComparisonData(PictureAt(Video(run.file), run.i, settings.frameRate),
                   COMPARISON_CANVAS_WIDTH, run.comparisonHeight)

\* The tail of the loop body, then i++ and the head of the loop.
PushFrame(st) ==
    LoopHead([st EXCEPT
        !.run.currentSceneFrames =
            Append(@, Frame(HighResFrameData(st.run), FrameDelay(settings.frameRate))),
        !.run.lastFrameData = CurrentFrameData(st.run),
        !.hook.progress = ((st.run.i + 1) * 100) \div st.run.totalFramesToProcess,
        !.run.i = @ + 1])

\* Mutant of IsSceneCut: only the first sample starts a scene.
IsSceneCutFirstOnly(run) == run.lastFrameData = Null

\* isSceneCut for sample i.
IsSceneCut(run) ==
    IF run.lastFrameData # Null
    THEN ExceedsThreshold(calculateFrameDifference(CurrentFrameData(run), run.lastFrameData))
    ELSE TRUE

\* The loop body after the seek, up to the next await.
OnSeeked(st) ==
    IF IsSceneCut(st.run) /\ Len(st.run.currentSceneFrames) >= MIN_SCENE_FRAMES
    THEN [st EXCEPT !.run.sceneCount = @ + 1, !.run.pc = "encoding", !.run.resume = "loop"]
    ELSE PushFrame(st)

\* Mutant of OnFinished: the sample that closed the scene is not kept.
OnFinishedDropsSample(st) ==
    LET newScene == createGifFromFrames(st.run, st.run.currentSceneFrames, st.run.sceneCount)
        scenes   == PushScene(st.run.scenes, newScene)
        pushed   == [st EXCEPT !.run.scenes = scenes, !.hook.processedScenes = scenes]
    IN  IF st.run.resume = "loop"
        THEN LoopHead([pushed EXCEPT !.run.currentSceneFrames = << >>,
                                     !.run.lastFrameData = CurrentFrameData(st.run),
                                     !.run.i = @ + 1])
        ELSE NoScenesCheck(pushed)

\* The encoder reports 'finished': the scene is pushed and published, and
\* the handler resumes in the loop or after it.
OnFinished(st) ==
    LET newScene == createGifFromFrames(st.run, st.run.currentSceneFrames, st.run.sceneCount)
        scenes   == PushScene(st.run.scenes, newScene)
        pushed   == [st EXCEPT !.run.scenes = scenes, !.hook.processedScenes = scenes]
    IN  IF st.run.resume = "loop"
        THEN PushFrame([pushed EXCEPT !.run.currentSceneFrames = << >>])
        ELSE NoScenesCheck(pushed)

\* video.onloadedmetadata up to the first await.
OnLoadedMetadata(st) ==
    LET video == Video(st.run.file)
        d     == ScaledDimensions(video.videoWidth, video.videoHeight, st.run.resolution)
    IN  IF st.run.aborted THEN Finally(st)
        ELSE IF ~ValidDimensions(d)
        THEN Finally([st EXCEPT !.hook.error =
                 "Could not determine video dimensions. The file may be invalid."])
        ELSE LoopHead([st EXCEPT
                 !.run.width = d.width,
                 !.run.height = d.height,
                 !.run.comparisonHeight = ComparisonHeight(d),
                 !.run.totalFramesToProcess =
                     TotalFramesToProcess(video, settings.frameRate)])

\* The runs started so far, and the latest of them (0 if none).
Started == {r \in RunIds : runs[r].pc # "idle"}
LatestRun == IF Started = {} THEN 0 ELSE CHOOSE r \in Started : \A q \in Started : q <= r

\* The effect's cleanup: abortController.abort() for the latest run and
\* URL.revokeObjectURL of the video videoRef.current holds.
Cleanup(rs) ==
    IF LatestRun = 0 THEN rs
    ELSE [rs EXCEPT ![LatestRun].aborted = TRUE, ![LatestRun].srcRevoked = TRUE]

\* The effect of App on processedScenes, run after a render in which the
\* hook returned a new array: if (processedScenes.length > 0)
\* setScenes(processedScenes).
ProcessedScenesEffect(list, published) ==
    IF Len(published) > 0 THEN published ELSE list

\* Writes a step of run r back to the variables.  A step that publishes
\* scenes hands App a new array.
Commit(r, rs, st) ==
    /\ runs' = [rs EXCEPT ![r] = st.run]
    /\ processedScenes' = st.hook.processedScenes
    /\ appScenes' = IF st.hook.processedScenes # processedScenes
                    THEN ProcessedScenesEffect(appScenes, st.hook.processedScenes)
                    ELSE appScenes
    /\ isProcessing' = st.hook.isProcessing
    /\ progress' = st.hook.progress
    /\ error' = st.hook.error

SegInit ==
    /\ videoFile = ""
    /\ baseName = ""
    /\ runs = [r \in RunIds |-> IdleRun(r)]
    /\ processedScenes = << >>
    /\ isProcessing = FALSE
    /\ progress = 0
    /\ error = NoError
    /\ revokedUrls = {}
    /\ appScenes = << >>

\* The user hands over a video (a new File object each time):
\* handleFileSelect resets App's video state, setScenes([]) included, and
\* sets the file; then the cleanup of the previous effect and the effect:
\* processVideo up to the point where the handlers of the video element are
\* installed.  The new, empty processedScenes leaves App's list alone.  The
\* worker script has been fetched before a file can be picked.
SelectVideo(input) ==
    /\ LatestRun + 1 \in RunIds
    /\ videoFile' = input.file
    /\ baseName' = input.baseName
    /\ runs' = [Cleanup(runs) EXCEPT ![LatestRun + 1] =
                   [IdleRun(LatestRun + 1) EXCEPT !.pc = "loading",
                                                  !.file = input.file,
                                                  !.baseName = input.baseName,
                                                  !.resolution = input.resolution]]
    /\ isProcessing' = TRUE
    /\ error' = NoError
    /\ revokedUrls' = revokedUrls \cup {processedScenes[k].dataUrl : k \in 1..Len(processedScenes)}
    /\ processedScenes' = << >>
    /\ progress' = 0
    /\ appScenes' = ProcessedScenesEffect(<< >>, << >>)

\* The application resets its video state: videoFile and baseName become
\* null and App's scenes list empty, the cleanup runs and the effect returns
\* at once.
ResetVideo ==
    /\ videoFile # ""
    /\ videoFile' = ""
    /\ baseName' = ""
    /\ appScenes' = << >>
    /\ runs' = Cleanup(runs)
    /\ UNCHANGED << processedScenes, isProcessing, progress, error, revokedUrls >>

\* 'loadedmetadata' of the video of run r.
LoadedMetadata(r) ==
    /\ runs[r].pc = "loading"
    /\ Commit(r, runs, OnLoadedMetadata([run |-> runs[r], hook |-> Hook]))
    /\ UNCHANGED << videoFile, baseName, revokedUrls >>

\* video.onerror of run r.
VideoError(r) ==
    /\ runs[r].pc = "loading"
    /\ runs' = [runs EXCEPT ![r].pc = "done"]
    /\ error' = "Could not load video file. It may be corrupted or unsupported."
    /\ isProcessing' = FALSE
    /\ UNCHANGED << videoFile, baseName, processedScenes, progress, revokedUrls, appScenes >>

\* 'seeked' for the seek of sample i of run r.
Seeked(r) ==
    /\ runs[r].pc = "seeking"
    /\ Commit(r, runs, OnSeeked([run |-> runs[r], hook |-> Hook]))
    /\ UNCHANGED << videoFile, baseName, revokedUrls >>

\* The seek of run r does not complete within 5 s.
SeekTimeout(r) ==
    /\ runs[r].pc = "seeking"
    /\ Commit(r, runs, Catch([run |-> runs[r], hook |-> Hook],
           "Video seek timed out at "
               \o TimeToFixed2(runs[r].i, settings.frameRate) \o "s"))
    /\ UNCHANGED << videoFile, baseName, revokedUrls >>

\* The encoder of run r reports 'finished'.
RenderFinished(r) ==
    /\ runs[r].pc = "encoding"
    /\ Commit(r, runs, OnFinished([run |-> runs[r], hook |-> Hook]))
    /\ UNCHANGED << videoFile, baseName, revokedUrls >>

\* The encoder of run r does not finish within 20 s.
RenderTimeout(r) ==
    /\ runs[r].pc = "encoding"
    /\ Commit(r, runs, Catch([run |-> runs[r], hook |-> Hook],
           "GIF rendering timed out for Scene " \o ToString(runs[r].sceneCount)))
    /\ UNCHANGED << videoFile, baseName, revokedUrls >>

SegNext ==
    \/ \E input \in Inputs : SelectVideo(input)
    \/ ResetVideo
    \/ \E r \in RunIds : LoadedMetadata(r)
    \/ \E r \in RunIds : VideoError(r)
    \/ \E r \in RunIds : Seeked(r)
    \/ \E r \in RunIds : SeekTimeout(r)
    \/ \E r \in RunIds : RenderFinished(r)
    \/ \E r \in RunIds : RenderTimeout(r)

\* handleSelectScene(id): the scene's isSelected is toggled in App's list.
HandleSelectScene(id) ==
    /\ \E k \in 1..Len(appScenes) : appScenes[k].id = id
    /\ appScenes' = [k \in 1..Len(appScenes) |->
                        IF appScenes[k].id = id
                        THEN [appScenes[k] EXCEPT !.isSelected = ~@]
                        ELSE appScenes[k]]
    /\ UNCHANGED << videoFile, baseName, runs, processedScenes, isProcessing, progress,
                    error, revokedUrls >>

\* The names a user types.
NewNames == {"intro"}

\* handleNameChange(id, newName): the scene's name is replaced in App's list.
HandleNameChange(id, newName) ==
    /\ \E k \in 1..Len(appScenes) : appScenes[k].id = id /\ appScenes[k].name # newName
    /\ appScenes' = [k \in 1..Len(appScenes) |->
                        IF appScenes[k].id = id
                        THEN [appScenes[k] EXCEPT !.name = newName]
                        ELSE appScenes[k]]
    /\ UNCHANGED << videoFile, baseName, runs, processedScenes, isProcessing, progress,
                    error, revokedUrls >>

\* A hook that is handed one file and never another one: the single run of
\* the study of what a run computes.
\* The wide strip is processed at three choices of the resolution, the
\* file of 854 by 480 at the smallest one.
SoloInputs ==
    {[file |-> v.name, baseName |-> "", resolution |-> settings.resolution] :
        v \in HalvesVideos \cup ThresholdVideos}
    \cup {[file |-> "wide", baseName |-> "", resolution |-> res] : res \in {Original, 854, 1280}}
    \cup {[file |-> "sd", baseName |-> "", resolution |-> 480]}

SelectOnce(input) == LatestRun = 0 /\ SelectVideo(input)

SoloNext ==
    \/ \E input \in SoloInputs : SelectOnce(input)
    \/ \E r \in RunIds : LoadedMetadata(r)
    \/ \E r \in RunIds : VideoError(r)
    \/ \E r \in RunIds : Seeked(r)
    \/ \E r \in RunIds : SeekTimeout(r)
    \/ \E r \in RunIds : RenderFinished(r)
    \/ \E r \in RunIds : RenderTimeout(r)


(***************************************************************************)
(* calculateFrameDifference as a pure function of two buffers: the inputs  *)
(* are drawn from every buffer of up to MaxPixels pixels of DiffColours.   *)
(***************************************************************************)
\* Most pixels of a buffer the difference is computed for.
MaxPixels == 2

\* RGBA values a pixel may have, within 0..255.
DiffColours ==
    { << 0, 0, 0, 255 >>, << 255, 255, 255, 255 >>, << 255, 0, 0, 255 >>,
      << 30, 30, 30, 255 >>, << 0, 128, 255, 0 >> }

\* The data of an ImageData with the given pixels: the flat RGBA bytes.
PixelData(pixels) ==
    [k \in 1..(4 * Len(pixels)) |-> pixels[((k - 1) \div 4) + 1][((k - 1) % 4) + 1]]

\* An ImageData has at least one pixel.
Buffers == UNION {{PixelData(px) : px \in [1..n -> DiffColours]} : n \in 1..MaxPixels}

VARIABLES
    dData1, dData2,     \* the arguments of calculateFrameDifference
    dComputed,          \* the function has been called
    dDifference         \* its result

diffVars == << dData1, dData2, dComputed, dDifference >>

DiffInit ==
    /\ dData1 \in Buffers
    /\ dData2 \in Buffers
    /\ dComputed = FALSE
    /\ dDifference = [nan |-> FALSE, num |-> 0, den |-> 1]

\* The call calculateFrameDifference(data1, data2).
ComputeDifference ==
    /\ ~dComputed
    /\ dDifference' = calculateFrameDifference(dData1, dData2)
    /\ dComputed' = TRUE
    /\ UNCHANGED << dData1, dData2 >>

DiffNext == ComputeDifference

(***************************************************************************)
(* The specifications.  Each leaves the variables of the others alone.     *)
(***************************************************************************)
vars == << combineVars, metricsVars, segVars, diffVars >>

CombineIdle ==
    /\ comp = "CombineModal"
    /\ phase = "constructed"
    /\ orderedSources = InitialOrder
    /\ flatFrames = << >>
    /\ trimStart = 0
    /\ trimEnd = 0
    /\ workerUrl = TRUE
    /\ timers = {}
    /\ generationTimeoutRef = 0
    /\ encodes = EmptyBag
    /\ combinedGif = NoGif
    /\ isGenerating = FALSE
    /\ quietMs = 0
    /\ lastOp = "other"

MetricsIdle ==
    /\ mFrames = << >>
    /\ mTrimStart = 0
    /\ mTrimEnd = 0
    /\ mComputed = FALSE
    /\ mMetrics = Metrics(<< >>, 0, 0)

DiffIdle ==
    /\ dData1 = << 0, 0, 0, 255 >>
    /\ dData2 = << 0, 0, 0, 255 >>
    /\ dComputed = FALSE
    /\ dDifference = [nan |-> FALSE, num |-> 0, den |-> 1]

\* The combine/trim engine.
Init == CombineInit /\ MetricsIdle /\ SegInit /\ DiffIdle
Next == CombineNext /\ UNCHANGED << metricsVars, segVars, diffVars >>
Spec == Init /\ [][Next]_vars

\* The derived metrics.
MetricsSpecInit == MetricsInit /\ CombineIdle /\ SegInit /\ DiffIdle
MetricsSpecNext == MetricsNext /\ UNCHANGED << combineVars, segVars, diffVars >>
MetricsSpec == MetricsSpecInit /\ [][MetricsSpecNext]_vars

\* The scene segmenter.
SegSpecInit == SegInit /\ CombineIdle /\ MetricsIdle /\ DiffIdle
SegSpecNext == SegNext /\ UNCHANGED << combineVars, metricsVars, diffVars >>
SegSpec == SegSpecInit /\ [][SegSpecNext]_vars

\* The single run.
SoloSpecInit == SegSpecInit
SoloSpecNext == SoloNext /\ UNCHANGED << combineVars, metricsVars, diffVars >>
SoloSpec == SoloSpecInit /\ [][SoloSpecNext]_vars

\* The frame difference.
DiffSpecInit == DiffInit /\ CombineIdle /\ MetricsIdle /\ SegInit
DiffSpecNext == DiffNext /\ UNCHANGED << combineVars, metricsVars, segVars >>
DiffSpec == DiffSpecInit /\ [][DiffSpecNext]_vars

\* App with one video and the user selecting and renaming the scenes shown
\* while the run goes on.
AppInputs == {[file |-> "over", baseName |-> "", resolution |-> settings.resolution]}

AppNext ==
    \/ \E input \in AppInputs : SelectOnce(input)
    \/ \E r \in RunIds : LoadedMetadata(r)
    \/ \E r \in RunIds : VideoError(r)
    \/ \E r \in RunIds : Seeked(r)
    \/ \E r \in RunIds : SeekTimeout(r)
    \/ \E r \in RunIds : RenderFinished(r)
    \/ \E r \in RunIds : RenderTimeout(r)
    \/ \E id \in {ToString(n) : n \in 1..2} : HandleSelectScene(id)
    \/ \E id \in {ToString(n) : n \in 1..2}, newName \in NewNames : HandleNameChange(id, newName)

AppSpecInit == SegInit /\ CombineIdle /\ MetricsIdle /\ DiffIdle
AppSpecNext == AppNext /\ UNCHANGED << combineVars, metricsVars, diffVars >>
AppSpec == AppSpecInit /\ [][AppSpecNext]_vars

\* A single run with the events it waits for arriving: the video element
\* fires 'loadedmetadata' or 'error', a seek fires 'seeked' or its timer of
\* 5 s rejects, an encode reports 'finished' or its timer of 20 s rejects.
SegFairness ==
    \A r \in RunIds :
        /\ WF_vars((VideoError(r) \/ LoadedMetadata(r))
                       /\ UNCHANGED << combineVars, metricsVars, diffVars >>)
        /\ WF_vars((SeekTimeout(r) \/ Seeked(r))
                       /\ UNCHANGED << combineVars, metricsVars, diffVars >>)
        /\ WF_vars((RenderTimeout(r) \/ RenderFinished(r))
                       /\ UNCHANGED << combineVars, metricsVars, diffVars >>)

SoloFairSpec == SoloSpec /\ SegFairness


(***************************************************************************)
(* Claims about the combine/trim engine (specification Spec).              *)
(***************************************************************************)
\* The encode of the current flattened frames at the current trim range.
CurrentEncode ==
    Generate(comp, Closure(workerUrl, orderedSources, flatFrames, trimStart, trimEnd),
             combinedGif, isGenerating).jobs[1]

\* The component is mounted with its worker script and a non-empty timeline,
\* and no regeneration is scheduled or running.
Settled ==
    /\ phase = "mounted"
    /\ workerUrl
    /\ Len(flatFrames) > 0
    /\ timers = {}
    /\ BagCardinality(encodes) = 0

\* C1: whenever no debounce timer is pending and no encode is in flight, the
\* displayed combined clip is the encode of the current flattened frames at the
\* current [trimStart, trimEnd]: a stale regeneration is never what is installed.
C1_PreviewIsCurrent == Settled => combinedGif = CurrentEncode

\* C2: at most one encode is in flight per timeline at any time.
C2_SingleFlight == BagCardinality(encodes) <= 1


\* A step that starts an encode, and the encode it starts.
EncodeStarted == BagCardinality(encodes') > BagCardinality(encodes)
StartedJob == CHOOSE job \in BagToSet(encodes') : CopiesIn(job, encodes') > CopiesIn(job, encodes)
\* A step that changes the sources or the trim bounds.
ParamsChanged ==
    << orderedSources', flatFrames', trimStart', trimEnd' >>
        # << orderedSources, flatFrames, trimStart, trimEnd >>

\* C3: a change of the sources or of the trim bounds made while a debounce timer
\* is pending cancels that timer and starts a new one with the full delay and
\* the new parameters; at most one timer is ever pending; and an encode is
\* started only after the quiet period has elapsed with no further change, with
\* the parameters of the last change (they are the current ones).
C3_Debounce ==
    [][ /\ Cardinality(timers') <= 1
        /\ (timers # {} /\ ParamsChanged) =>
               timers' = {[id |-> generationTimeoutRef',
                           left |-> Debounce(comp),
                           cl |-> Closure(workerUrl', orderedSources', flatFrames',
                                          trimStart', trimEnd')]}
        /\ EncodeStarted =>
               /\ quietMs >= Debounce(comp)
               /\ StartedJob = CurrentEncode
      ]_vars

\* C3 witness: a change was made while a timer was part-way through its delay,
\* and the timer now pending has the full delay again.
C3_Witness ==
    /\ lastOp # "other"
    /\ quietMs = 0
    /\ \E t \in timers : t.left = Debounce(comp)
    /\ BagCardinality(encodes) = 1

\* C4: 0 <= trimStart <= trimEnd < len(flattened) whenever the flattened index
\* is non-empty, and the trim range is [0, 0] when it is empty.
C4_TrimRangeValid ==
    IF Len(flatFrames) > 0
    THEN 0 <= trimStart /\ trimStart <= trimEnd /\ trimEnd < Len(flatFrames)
    ELSE trimStart = 0 /\ trimEnd = 0

\* C4 witness: a handle was dragged across the other one, and the range is a
\* single frame that is not the first.
C4_Witness ==
    /\ lastOp \in {"startBeyondEnd", "endBelowStart"}
    /\ trimStart = trimEnd
    /\ trimStart > 0

\* C5 as claimed: setTrimStart(v) with v above trimEnd sets trimStart to v and
\* pulls trimEnd up to v; setTrimEnd(v) with v below trimStart sets trimEnd to v
\* and pulls trimStart down to v.
C5_SetterMovesOtherBound ==
    [][ \A v \in SliderValues(flatFrames) :
          /\ (SetTrimStart(v) /\ v > trimEnd) => (trimStart' = v /\ trimEnd' = v)
          /\ (SetTrimEnd(v) /\ v < trimStart) => (trimEnd' = v /\ trimStart' = v)
      ]_vars

\* C5 as amended: setTrimStart(v) with v above trimEnd sets trimStart to the
\* current trimEnd and leaves trimEnd alone; setTrimEnd(v) with v below trimStart
\* sets trimEnd to the current trimStart and leaves trimStart alone.
C5_SetterClampsItself ==
    [][ \A v \in SliderValues(flatFrames) :
          /\ (SetTrimStart(v) /\ v > trimEnd) => (trimStart' = trimEnd /\ trimEnd' = trimEnd)
          /\ (SetTrimEnd(v) /\ v < trimStart) => (trimEnd' = trimStart /\ trimStart' = trimStart)
      ]_vars

\* C5 witness: the start handle was dragged beyond an end handle that is not at
\* the last frame.
C5_Witness ==
    /\ lastOp = "startBeyondEnd"
    /\ trimStart = trimEnd
    /\ trimEnd < Len(flatFrames) - 1

\* C6: every reorder, whatever the trim range was before, leaves the flattened
\* index the concatenation of the sources in the new order and the trim range
\* the full span [0, len - 1] ([0, 0] when the index is empty).
C6_ReorderResetsTrim ==
    [][ \A i, j \in 0..(Len(orderedSources) - 1) :
          Reorder(i, j) =>
              /\ orderedSources' = DragSort(orderedSources, i, j)
              /\ Len(flatFrames') =
                     Len(Sources(comp)[orderedSources'[1]].frames)
                         + Len(Sources(comp)[orderedSources'[2]].frames)
              /\ \A k \in 1..Len(flatFrames') :
                     flatFrames'[k] =
                         LET first == Sources(comp)[orderedSources'[1]].frames
                             second == Sources(comp)[orderedSources'[2]].frames
                         IN  IF k <= Len(first) THEN first[k] ELSE second[k - Len(first)]
              /\ trimStart' = 0
              /\ trimEnd' = IF Len(flatFrames') = 0 THEN 0 ELSE Len(flatFrames') - 1
      ]_vars

\* C6 witness: a trimmed timeline was reordered.
C6_Witness ==
    /\ lastOp = "reorderTrimmed"
    /\ trimStart = 0
    /\ trimEnd = Len(flatFrames) - 1

\* C7: the frames handed to the encoder by a regeneration are the frames at the
\* flattened indices trimStart..trimEnd, in flattened order, each with its own
\* delay, and there are trimEnd - trimStart + 1 of them.
C7_EncoderGetsTrimRange ==
    [][ EncodeStarted =>
          /\ Len(StartedJob.frames) = trimEnd - trimStart + 1
          /\ \A k \in 1..Len(StartedJob.frames) :
                 /\ StartedJob.frames[k].image = flatFrames[trimStart + k].data
                 /\ StartedJob.frames[k].delay = flatFrames[trimStart + k].delay
      ]_vars

\* C7 witness: an encode of a range that leaves out the first frame is in flight.
C7_Witness ==
    \E job \in BagToSet(encodes) :
        /\ Len(job.frames) < Len(flatFrames)
        /\ job.frames[1].image # flatFrames[1].data

\* C8: the width and height given to the encoder are those of the first source
\* in the current source order, for every trim range.
C8_FirstSourceDimensions ==
    [][ EncodeStarted =>
          /\ StartedJob.width = Sources(comp)[orderedSources[1]].width
          /\ StartedJob.height = Sources(comp)[orderedSources[1]].height
      ]_vars

\* C8 witness: an encode is in flight whose range starts inside a later source,
\* one whose frames are not of the size the encoder was given.
C8_Witness ==
    \E job \in BagToSet(encodes) :
        /\ job.frames[1].image.src # orderedSources[1]
        /\ job.frames[1].image.width # job.width


(***************************************************************************)
(* Claims about the derived metrics (specification MetricsSpec).           *)
(***************************************************************************)
\* The sum of the delays of the frames at the 0-based indices of I.
RECURSIVE DelaySum(_, _)
DelaySum(frames, I) ==
    IF I = {} THEN 0
    ELSE LET i == CHOOSE x \in I : TRUE
         IN  frames[i + 1].delay + DelaySum(frames, I \ {i})

\* C9: for any frame list and any valid trim range, the total duration is the
\* sum of all frames' delays, the start time the sum of the delays at indices
\* below trimStart, the selected duration the sum of the delays at indices
\* trimStart..trimEnd, and end time = start time + selected duration, which is
\* at most the total duration.
C9_MetricsAreDelaySums ==
    mComputed =>
        LET n == Len(mFrames)
        IN  /\ mMetrics.totalDurationMs = DelaySum(mFrames, 0..(n - 1))
            /\ mMetrics.startTimeMs =
                   DelaySum(mFrames, {i \in 0..(n - 1) : i < mTrimStart})
            /\ mMetrics.selectedDurationMs =
                   DelaySum(mFrames, {i \in 0..(n - 1) : mTrimStart <= i /\ i <= mTrimEnd})
            /\ mMetrics.endTimeMs = mMetrics.startTimeMs + mMetrics.selectedDurationMs
            /\ mMetrics.endTimeMs <= mMetrics.totalDurationMs

\* C9 witness: the metrics of an inner range of three frames with three
\* different delays.
C9_Witness ==
    /\ mComputed
    /\ Len(mFrames) = 3
    /\ Cardinality({mFrames[k].delay : k \in 1..3}) = 3
    /\ mTrimStart = 1
    /\ mTrimEnd = 1
    /\ mMetrics.startTimeMs > 0
    /\ mMetrics.endTimeMs < mMetrics.totalDurationMs

(***************************************************************************)
(* Claims about the scene segmenter (specification SegSpec).               *)
(***************************************************************************)
\* The sample indices of the frames of the scenes, scene after scene.
RECURSIVE SamplesOf(_)
SamplesOf(scenes) ==
    IF scenes = << >> THEN << >>
    ELSE [k \in 1..Len(scenes[1].frames) |-> scenes[1].frames[k].data.k]
             \o SamplesOf(Tail(scenes))

\* Run r pushes a scene in this step.
Emits(r) == runs'[r].pc # "idle" /\ runs[r].pc # "idle" /\ runs'[r].scenes # runs[r].scenes

\* C10: within one segmentation run, scenes are emitted in strictly
\* ascending ordinal order: a step of the run that changes its scene list
\* appends one scene to it and publishes the grown list, the ordinals of the
\* list are 1, 2, 3, ... without gaps, and every sample of a scene with a
\* lower ordinal is earlier than every sample of a scene with a higher one.
C10_ScenesInOrdinalOrder ==
    [][\A r \in RunIds :
          LET old == runs[r].scenes
              new == runs'[r].scenes
          IN  /\ Emits(r) =>
                  /\ Len(new) = Len(old) + 1
                  /\ SubSeq(new, 1, Len(old)) = old
                  /\ processedScenes' = new
              /\ \A k \in 1..Len(new) : new[k].id = ToString(k)
              /\ \A k \in 1..Len(new), j \in 1..Len(new) :
                     k < j => \A a \in 1..Len(new[k].frames), b \in 1..Len(new[j].frames) :
                                  new[k].frames[a].data.k < new[j].frames[b].data.k
      ]_vars

\* A run has published three scenes, the last one after the last sample.
C10_Witness ==
    \E r \in RunIds :
        /\ runs[r].pc = "done"
        /\ Len(runs[r].scenes) = 3
        /\ processedScenes = runs[r].scenes
        /\ SamplesOf(runs[r].scenes) = [k \in 1..30 |-> k - 1]

\* C11: every scene emitted by the segmenter, whether closed by a detected
\* boundary or after the last sample, holds at least MIN_SCENE_FRAMES (10)
\* frames: in every state, every scene of a run's list and every published
\* scene has at least that many frames.
C11_ScenesHaveMinFrames ==
    /\ \A r \in RunIds : \A k \in 1..Len(runs[r].scenes) :
           Len(runs[r].scenes[k].frames) >= MIN_SCENE_FRAMES
    /\ \A k \in 1..Len(processedScenes) :
           Len(processedScenes[k].frames) >= MIN_SCENE_FRAMES

\* A run is over with a scene closed by a boundary after exactly
\* MIN_SCENE_FRAMES frames and a longer one closed after the last sample.
C11_Witness ==
    \E r \in RunIds :
        /\ runs[r].pc = "done"
        /\ runs[r].file = "blip"
        /\ Len(runs[r].scenes) = 2
        /\ Len(runs[r].scenes[1].frames) = MIN_SCENE_FRAMES
        /\ Len(runs[r].scenes[2].frames) > MIN_SCENE_FRAMES
        /\ processedScenes = runs[r].scenes

\* Sample i of run r is seen as a cut while the open accumulation is
\* non-empty and shorter than MIN_SCENE_FRAMES.
ShortRunCut(r) ==
    /\ Len(runs[r].currentSceneFrames) \in 1..(MIN_SCENE_FRAMES - 1)
    /\ Seeked(r)
    /\ IsSceneCut(runs[r])

\* C12: when a boundary is detected while the accumulating run is shorter
\* than MIN_SCENE_FRAMES, the run's frames are discarded and a new
\* accumulation starts (with the sample that made the cut) without emitting
\* a scene; in particular the six frames of the blip of the video "blip",
\* between two longer scenes, appear in no emitted scene.
C12_ShortRunDiscarded ==
    [][\A r \in RunIds :
          /\ ShortRunCut(r) =>
                 /\ Len(runs'[r].currentSceneFrames) = 1
                 /\ runs'[r].scenes = runs[r].scenes
          /\ runs'[r].file = "blip" =>
                 \A k \in 1..Len(runs'[r].scenes) :
                     \A a \in 1..Len(runs'[r].scenes[k].frames) :
                         PictureAt(Video("blip"), runs'[r].scenes[k].frames[a].data.k,
                                   settings.frameRate) # "white"
      ]_vars

(***************************************************************************)
(* Claims about a single run (specification SoloSpec).                     *)
(***************************************************************************)
\* The samples of a halves video taken in its first half.
FirstHalfSamples(video) ==
    {i \in 0..(TotalFramesToProcess(video, settings.frameRate) - 1) :
         PictureAt(video, i, settings.frameRate) # "white"}

\* Both halves of the video have at least MIN_SCENE_FRAMES samples.
HalvesLongEnough(video) ==
    LET total == TotalFramesToProcess(video, settings.frameRate)
        first == Cardinality(FirstHalfSamples(video))
    IN  first >= MIN_SCENE_FRAMES /\ total - first >= MIN_SCENE_FRAMES

\* Run r went through all its samples and encodes without an error.
CompletedHalves(r) ==
    /\ runs[r].pc = "done"
    /\ error = NoError
    /\ Video(runs[r].file) \in HalvesVideos

\* C13: for a video whose samples are similar within the first half and
\* within the second half, with one above-threshold difference between the
\* halves and at least MIN_SCENE_FRAMES samples in each, a completed run has
\* exactly 2 scenes, and the frame count of each is within 1 of half the
\* number of samples.
C13_TwoHalvesTwoScenes ==
    \A r \in RunIds :
        CompletedHalves(r) /\ HalvesLongEnough(Video(runs[r].file)) =>
            /\ Len(runs[r].scenes) = 2
            /\ processedScenes = runs[r].scenes
            /\ \A k \in 1..2 :
                   Abs(2 * Len(runs[r].scenes[k].frames) - runs[r].totalFramesToProcess) <= 2

\* A completed run over a video with an odd number of samples, both halves
\* long enough.
C13_Witness ==
    \E r \in RunIds :
        /\ CompletedHalves(r)
        /\ HalvesLongEnough(Video(runs[r].file))
        /\ runs[r].totalFramesToProcess % 2 = 1
        /\ Len(runs[r].scenes) = 2
        /\ Len(runs[r].scenes[1].frames) # Len(runs[r].scenes[2].frames)

(***************************************************************************)
(* Further claims about the scene segmenter (specification SegSpec).       *)
(***************************************************************************)
\* C14: a seek that times out at sample index k ends the run with an error
\* before index k + 1 is processed: the step of the timeout ends the run,
\* sets the error and clears isProcessing without emitting the open
\* accumulation, and a run that is over stays over at the same index with
\* the same scenes (no seek for a later index, no retry of index k).
C14_SeekTimeoutEndsRun ==
    [][\A r \in RunIds :
          /\ SeekTimeout(r) =>
                 /\ runs'[r].pc = "done"
                 /\ runs'[r].i = runs[r].i
                 /\ runs'[r].scenes = runs[r].scenes
                 /\ processedScenes' = processedScenes
                 /\ error' # NoError
                 /\ isProcessing' = FALSE
          /\ runs[r].pc = "done" =>
                 /\ runs'[r].pc = "done"
                 /\ runs'[r].i = runs[r].i
                 /\ runs'[r].scenes = runs[r].scenes
      ]_vars

\* The seek of sample 22 of the video "blip" has timed out: the run is over
\* with the one scene it had emitted, the 12 frames of its open accumulation
\* in no scene.
C14_Witness ==
    \E r \in RunIds :
        /\ runs[r].pc = "done"
        /\ runs[r].file = "blip"
        /\ runs[r].i = 22
        /\ Len(runs[r].currentSceneFrames) = 12
        /\ Len(runs[r].scenes) = 1
        /\ error = "Video seek timed out at 2.75s"
        /\ ~isProcessing

NoScenesDetected ==
    "No scenes could be detected. The video might be too short or a single continuous scene. Try adjusting Optimization Settings."

\* Run r reaches the end of its handler in this step with every sample
\* processed: not by a timeout, an abort, a load error or invalid dimensions.
CompletesPass(r) ==
    /\ runs[r].pc # "done"
    /\ runs'[r].pc = "done"
    /\ runs'[r].i = runs'[r].totalFramesToProcess
    /\ \/ Seeked(r)
       \/ RenderFinished(r)
       \/ /\ LoadedMetadata(r)
          /\ ~runs[r].aborted
          /\ ValidDimensions([width |-> runs'[r].width, height |-> runs'[r].height])

\* C15: a pass that processed at least one sample and produced no scene
\* reports NoScenesDetected: the step that completes it sets the hook's
\* error to the 'No scenes could be detected' message; a pass that emitted
\* at least one scene does not report it: its last step leaves the error as
\* it was.
C15_NoScenesReported ==
    [][\A r \in RunIds :
          CompletesPass(r) =>
              /\ (runs'[r].totalFramesToProcess > 0 /\ Len(runs'[r].scenes) = 0)
                     => error' = NoScenesDetected
              /\ Len(runs'[r].scenes) > 0 => error' = error
      ]_vars

\* The pass over the 4 samples of the video "short" is over without a scene
\* and the error is reported.
C15_Witness ==
    \E r \in RunIds :
        /\ runs[r].pc = "done"
        /\ runs[r].file = "short"
        /\ runs[r].i = 4
        /\ runs[r].scenes = << >>
        /\ error = NoScenesDetected
        /\ ~isProcessing

\* The metadata of run r arrive in this step, the run is not aborted, the
\* dimensions are valid and floor(duration * frameRate) is zero.
LoadsZeroSamples(r) ==
    /\ runs[r].pc = "loading"
    /\ ~runs[r].aborted
    /\ LoadedMetadata(r)
    /\ ValidDimensions([width |-> runs'[r].width, height |-> runs'[r].height])
    /\ runs'[r].totalFramesToProcess = 0

\* C16: when floor(duration * frameRate) is zero the run reports
\* NoScenesDetected without a seek: the step that reads the metadata ends
\* the run and sets the hook's error to the 'No scenes could be detected'
\* message.
C16_ZeroSamplesReported ==
    [][\A r \in RunIds :
          LoadsZeroSamples(r) =>
              /\ runs'[r].pc = "done"
              /\ error' = NoScenesDetected
      ]_vars

\* The encode of a scene closed inside the loop of run r times out in this
\* step, with the run not aborted.
EncodeFailsInLoop(r) ==
    /\ runs[r].pc = "encoding"
    /\ runs[r].resume = "loop"
    /\ ~runs[r].aborted
    /\ RenderTimeout(r)

\* C17: a failure or timeout of one scene's encode does not abort the
\* run: after the timeout of the encode of a scene closed at sample i the
\* run goes on sampling, that is, sample i is kept and the run seeks the
\* next index, or is past the last sample with no error from the encode
\* ending it.
C17_EncodeFailureDoesNotAbort ==
    [][\A r \in RunIds :
          EncodeFailsInLoop(r) =>
              /\ runs'[r].i = runs[r].i + 1
              /\ \/ runs'[r].pc = "seeking"
                 \/ runs'[r].i = runs'[r].totalFramesToProcess
      ]_vars

\* Run r sets video.currentTime in this step: it starts to wait for a seek,
\* or for the seek of another index.
SeekIssued(r) ==
    /\ runs'[r].pc = "seeking"
    /\ runs[r].pc # "seeking" \/ runs'[r].i # runs[r].i

\* C18: after a run is aborted by the effect's cleanup, it issues no
\* further seek: no step of an aborted run, the step of the abort included,
\* sets video.currentTime.
C18_NoSeekAfterAbort ==
    [][\A r \in RunIds : runs'[r].aborted => ~SeekIssued(r)]_vars

\* Run 1 was aborted during a seek; the seek completed, the sample was
\* captured and the run returned at the head of the loop, before the run
\* that superseded it got its metadata.
C18_Witness ==
    /\ runs[1].aborted
    /\ runs[1].pc = "done"
    /\ runs[1].i > 0
    /\ runs[1].i < runs[1].totalFramesToProcess
    /\ Len(runs[1].currentSceneFrames) = runs[1].i
    /\ runs[2].pc = "loading"
    /\ error = NoError
    /\ ~isProcessing

\* The sample of run r that has just been sought closes a scene inside the
\* loop: the scene is handed to the encoder in this step.
HandsSceneOver(r) ==
    /\ runs[r].pc = "seeking"
    /\ Seeked(r)
    /\ runs'[r].sceneCount = runs[r].sceneCount + 1
    /\ runs[r].i + 1 < runs[r].totalFramesToProcess

\* C19: scene emission is fire-and-forget: handing a closed scene to the
\* encoder does not block sampling, so the step that hands the scene over
\* goes on to keep the sample and to issue the seek for the next index while
\* the encode is pending.
C19_EmissionDoesNotBlock ==
    [][\A r \in RunIds :
          HandsSceneOver(r) =>
              /\ runs'[r].i = runs[r].i + 1
              /\ runs'[r].pc = "seeking"
      ]_vars

(***************************************************************************)
(* Claims about calculateFrameDifference (specification DiffSpec).         *)
(***************************************************************************)
\* C20: difference(f, f) = 0 for every frame buffer f with channel values
\* in 0..255: called with the same buffer twice, calculateFrameDifference
\* returns the number 0.
C20_DifferenceIdentity ==
    (dComputed /\ dData1 = dData2) =>
        /\ ~dDifference.nan
        /\ dDifference.num = 0
        /\ dDifference.den > 0

\* The difference of a buffer of two pixels that are not black with itself
\* has been computed.
C20_Witness ==
    /\ dComputed
    /\ dData1 = dData2
    /\ dData1 = PixelData(<< << 255, 0, 0, 255 >>, << 0, 128, 255, 0 >> >>)
    /\ dDifference.num = 0

\* C21: difference(a, b) = difference(b, a) for every pair of frame buffers
\* of equal dimensions, and the value lies in [0, 100]: the result of the
\* call is the result of the call with the arguments exchanged, a number
\* that is at least 0 and at most 100.
C21_DifferenceSymmetric ==
    (dComputed /\ Len(dData1) = Len(dData2)) =>
        /\ dDifference = calculateFrameDifference(dData2, dData1)
        /\ ~dDifference.nan
        /\ dDifference.den > 0
        /\ 0 <= dDifference.num
        /\ dDifference.num <= 100 * dDifference.den

\* The difference of two different buffers of two pixels has been computed
\* and is neither 0 nor 100.
C21_Witness ==
    /\ dComputed
    /\ Len(dData1) = 8
    /\ Len(dData2) = 8
    /\ dData1 # dData2
    /\ dDifference.num > 0
    /\ dDifference.num < 100 * dDifference.den

\* C22: difference(a, b) called with two buffers of different dimensions
\* fails with DimensionMismatch instead of returning a score: no call with
\* buffers of different lengths returns a result.
C22_DimensionMismatchFails == Len(dData1) # Len(dData2) => ~dComputed


\* The low resolution bytes of sample i of the video of run r, from the video.
ComparisonFrame(r, i) ==
    ComparisonData(PictureAt(Video(runs[r].file), i, settings.frameRate),
                   COMPARISON_CANVAS_WIDTH, runs[r].comparisonHeight)

\* difference(comparisonFrame[i], comparisonFrame[i-1]) is strictly greater
\* than the threshold.
BoundaryAt(r, i) ==
    LET d == calculateFrameDifference(ComparisonFrame(r, i), ComparisonFrame(r, i - 1))
    IN  ~d.nan /\ d.num > DIFFERENCE_THRESHOLD * d.den

\* C23: samples are processed strictly in index order 0..total-1, each
\* exactly once: the first seek is for sample 0, every later seek is for the
\* sample after the one just processed, the index never exceeds the number
\* of samples, and it moves only by processing the sample it names.  While
\* the seek of a sample i > 0 is pending the frame it will be compared with
\* is sample i-1, also directly after a scene was emitted, and a boundary is
\* detected exactly if the difference of the two is strictly greater than
\* the threshold; with minSceneFrames frames accumulated, the accumulation
\* is handed to the encoder before sample i joins it exactly in that case.
C23_BoundaryIffAboveThreshold ==
    [][\A r \in RunIds :
        LET run == runs[r]
            after == runs'[r]
        IN  /\ after.i \in {run.i, run.i + 1}
            /\ after.i <= after.totalFramesToProcess
            /\ after.i = run.i + 1 => run.pc \in {"seeking", "encoding"}
            /\ (after.pc = "seeking" /\ (run.pc # "seeking" \/ after.i # run.i)) =>
                   \/ run.pc = "loading" /\ after.i = 0
                   \/ after.i = run.i + 1
            /\ (run.pc = "seeking" /\ run.i > 0) =>
                   /\ run.lastFrameData = ComparisonFrame(r, run.i - 1)
                   /\ IsSceneCut(run) <=> BoundaryAt(r, run.i)
                   /\ (Len(run.currentSceneFrames) >= MIN_SCENE_FRAMES /\ Seeked(r)) =>
                          ((after.pc = "encoding" /\ after.i = run.i) <=> BoundaryAt(r, run.i))
    ]_vars

\* The run over the video "tie" has processed sample 10, whose difference
\* from sample 9 equals the threshold: it joined the open accumulation.
C23_Witness ==
    \E r \in RunIds :
        /\ runs[r].file = "tie"
        /\ runs[r].pc = "seeking"
        /\ runs[r].i = 11
        /\ Len(runs[r].currentSceneFrames) = 11
        /\ runs[r].sceneCount = 0
        /\ LET d == calculateFrameDifference(ComparisonFrame(r, 10), ComparisonFrame(r, 9))
           IN  d.num = DIFFERENCE_THRESHOLD * d.den


\* C24: the high resolution dimensions of a run equal the source dimensions
\* for the resolution 'original' or when max(w, h) <= target, and are
\* floor(w * target / max(w, h)) and floor(h * target / max(w, h)) otherwise,
\* so that the larger of them never exceeds the target; they are those of
\* every frame captured by the run and of every scene it encodes.
C24_HighResolutionDimensions ==
    \A r \in RunIds :
        LET run       == runs[r]
            video     == Video(run.file)
            target    == run.resolution
            largerDim == Max(video.videoWidth, video.videoHeight)
            frames    == run.currentSceneFrames
        IN  run.width # 0 =>
            /\ IF target = Original \/ largerDim <= target
               THEN /\ run.width = video.videoWidth
                    /\ run.height = video.videoHeight
               ELSE /\ run.width = (video.videoWidth * target) \div largerDim
                    /\ run.height = (video.videoHeight * target) \div largerDim
                    /\ Max(run.width, run.height) <= target
            /\ \A k \in 1..Len(frames) :
                   frames[k].data.width = run.width /\ frames[k].data.height = run.height
            /\ \A n \in 1..Len(run.scenes) :
                   /\ run.scenes[n].dataUrl.blob.width = run.width
                   /\ run.scenes[n].dataUrl.blob.height = run.height
                   /\ \A k \in 1..Len(run.scenes[n].frames) :
                          /\ run.scenes[n].frames[k].data.width = run.width
                          /\ run.scenes[n].frames[k].data.height = run.height


\* The frames of the scenes of a list, one scene after the other.
RECURSIVE FramesOfScenes(_)
FramesOfScenes(list) ==
    IF list = << >> THEN << >> ELSE list[1].frames \o FramesOfScenes(Tail(list))

\* The frames of the samples 0..n-1 of a run, as they are captured.
SampledFrames(run, n) ==
    [k \in 1..n |-> Frame(Image(run.file, k - 1, run.width, run.height),
                          FrameDelay(settings.frameRate))]

\* While a run is at a seek or at an encode, its emitted scenes followed by
\* its open accumulation are the samples processed so far.
NoFrameLost(run) ==
    run.pc \in {"seeking", "encoding"} =>
        /\ FramesOfScenes(run.scenes) \o run.currentSceneFrames = SampledFrames(run, run.i)
        /\ \A n \in 1..Len(run.scenes) : run.scenes[n].id = ToString(n)

\* After a completed pass the emitted scenes are the samples 0..n-1, and the
\* samples n.. of no scene are a last accumulation of fewer than
\* MIN_SCENE_FRAMES frames.
OnlyShortTailLost(run) ==
    \E n \in 0..run.totalFramesToProcess :
        /\ FramesOfScenes(run.scenes) = SampledFrames(run, n)
        /\ \/ n = run.totalFramesToProcess
           \/ /\ run.totalFramesToProcess - n < MIN_SCENE_FRAMES
              /\ run.currentSceneFrames =
                     SubSeq(SampledFrames(run, run.totalFramesToProcess), n + 1,
                            run.totalFramesToProcess)

\* C25: the segmenter loses no sampled frame except a trailing short run: at
\* every point of a run the frames of the emitted scenes, in ordinal order,
\* followed by the open accumulation are the samples processed so far, in
\* sample order, each exactly once; after a completed run the only samples
\* in no emitted scene are those of a final accumulation shorter than
\* minSceneFrames.
C25_NoFrameLost ==
    [][\A r \in RunIds :
        /\ NoFrameLost(runs[r])
        /\ NoFrameLost(runs'[r])
        /\ CompletesPass(r) => OnlyShortTailLost(runs'[r])
    ]_vars

\* A run has emitted two scenes and holds three frames of a third.
C25_Witness ==
    \E r \in RunIds :
        /\ runs[r].pc = "seeking"
        /\ Len(runs[r].scenes) = 2
        /\ Len(runs[r].currentSceneFrames) = 3
        /\ runs[r].i = 23


\* C26: a run that has been aborted and superseded by a newer run never
\* writes the hook's shared state afterwards: no step of it changes
\* processedScenes, progress or error, and none sets isProcessing to false
\* while the newer run is still at work.
C26_StaleRunWritesNothing ==
    [][\A r \in RunIds :
        (runs[r].aborted /\ LatestRun > r /\ runs'[r] # runs[r]) =>
            /\ processedScenes' = processedScenes
            /\ progress' = progress
            /\ error' = error
            /\ runs[LatestRun].pc \in {"loading", "seeking", "encoding"} =>
                   isProcessing' = isProcessing
    ]_vars


RegenerationPending == timers # {} \/ encodes # EmptyBag

\* C28: whenever a regeneration is scheduled or in flight, isGenerating is
\* true; isGenerating is false only when no regeneration is pending or in
\* flight.
C28_GeneratingWhilePending == RegenerationPending => isGenerating


(***************************************************************************)
(* Claims about the scenes list of App                                     *)
(***************************************************************************)

\* C29: a rename or a selection toggle of an emitted scene is preserved when
\* the segmenter emits further scenes in the same run: the step in which a
\* run publishes scene n+1 leaves the name and isSelected of the scenes 1..n
\* of App's list unchanged.
C29_EditsSurviveEmission ==
    [][\A r \in RunIds :
        Len(runs'[r].scenes) = Len(runs[r].scenes) + 1 =>
            \A k \in 1..Len(appScenes) :
                /\ k <= Len(appScenes')
                /\ appScenes'[k].name = appScenes[k].name
                /\ appScenes'[k].isSelected = appScenes[k].isSelected
    ]_vars

\* C30: no scene held in App's scenes list refers to an object URL that has
\* been revoked.
C30_NoRevokedUrlInList ==
    \A k \in 1..Len(appScenes) : appScenes[k].dataUrl \notin revokedUrls

====
